---- MODULE Spec2Model ----
(***************************************************************************)
(* The URL shortener of src/main.go: the Mint and Serve HTTP handlers and  *)
(* the Expirer loop, over one bolt database with the buckets "urls"        *)
(* (URL -> token) and "keys" (token -> JSON of Key{Url, Expiry}).          *)
(*                                                                         *)
(* bolt runs one read-write transaction at a time and commits all of its   *)
(* writes or none, and a read-only transaction sees one committed state.   *)
(* Each handler does nothing to shared state outside its one transaction   *)
(* (the candidate token is local, the response is the caller's), so every  *)
(* concurrent execution of handlers is an interleaving of the actions      *)
(* below, each of them one whole handler call or one Expirer cycle.        *)
(*                                                                         *)
(* Time is the wall clock in units of the record lifetime (30 days).       *)
(* A handler's response is the sequence of calls it makes on the           *)
(* http.ResponseWriter, in order.                                          *)
(***************************************************************************)
EXTENDS Integers, Sequences, FiniteSets, TLC

VARIABLES
    now,      \* time.Now()
    buckets,  \* the names of the buckets that exist in the database
    urls,     \* bucket "urls": URL -> token
    keys,     \* bucket "keys": token -> stored value
    last,     \* the operation that ran last, with its inputs and its response
    issued,   \* history: per URL, the token and expiry of its last successful Mint
    tx,       \* the open read-write transaction of the database, with its writes
    cache,    \* the companion tool's map cache: subject -> short URL
    cacheMu,  \* the tool's sync.RWMutex: the goroutines holding it
    pc,       \* per goroutine of the tool, the line of Shorten it is at
    local,    \* per goroutine of the tool, Shorten's subject, ok, body and result
    fatal     \* the tool's runtime has stopped it on a concurrent map access

\* The variables of the companion tool, a separate program.
toolVars == <<cache, cacheMu, pc, local, fatal>>

vars == <<now, buckets, urls, keys, last, issued, tx, toolVars>>

\* ------------------------------------------------------------------ bounds

\* The clock runs from 0 to MaxTime.
MaxTime == 2

\* rand.Int63() draws from 0..MaxRand.
MaxRand == 1

\* The companion tool starts NumGoroutines goroutines beside main.
NumGoroutines == 2

\* ------------------------------------------------------------- constants

\* time.Hour * 24 * 30, in units of 30 days.
TTL == 1

StatusOK == 200
StatusMovedPermanently == 301
StatusBadRequest == 400
StatusNotFound == 404
StatusInternalServerError == 500

\* ------------------------------------------------------------------ values

\* A nil []byte read as a string: what Bucket.Get returns for a key that is
\* not in a bucket of tokens.
Nil == ""

\* A nil []byte where the stored JSON of a Key is expected.
NilValue == [nil |-> TRUE]

\* A URL is a string, here a sequence of characters. "\\xff" is a byte that
\* is not valid UTF-8 and "\\ufffd" is the Unicode replacement character.
EmptyUrl == <<>>
Urls == {<<"a">>, <<"\\xff">>, <<"\\ufffd">>}
FormValues == Urls \cup {EmptyUrl}

\* strconv.FormatInt(n, 36) for n >= 0.
Digits36 == <<"0", "1", "2", "3", "4", "5", "6", "7", "8", "9", "a", "b",
              "c", "d", "e", "f", "g", "h", "i", "j", "k", "l", "m", "n",
              "o", "p", "q", "r", "s", "t", "u", "v", "w", "x", "y", "z">>

RECURSIVE FormatInt36(_)
FormatInt36(n) ==
    IF n < 36 THEN Digits36[n + 1]
    ELSE FormatInt36(n \div 36) \o Digits36[(n % 36) + 1]

\* The tokens Mint can generate.
Tokens == {FormatInt36(n) : n \in 0..MaxRand}

\* The zero value of Key.
ZeroKey == [Url |-> EmptyUrl, Expiry |-> 0]

\* encoding/json reads and writes a string coerced to valid UTF-8: each
\* invalid byte becomes U+FFFD.
CoerceUTF8(s) == [i \in DOMAIN s |-> IF s[i] = "\\xff" THEN "\\ufffd" ELSE s[i]]

\* json.Marshal(keyObj): the stored bytes, as the JSON object they spell.
\* ok says the bytes decode into a Key without error.
Marshal(keyObj) ==
    [ok |-> TRUE, Url |-> CoerceUTF8(keyObj.Url), Expiry |-> keyObj.Expiry]

\* json.Unmarshal(v, keyObj) into a zero Key: the error, and the Key after
\* the call. A failed decode leaves the fields decoded before the error.
Unmarshal(v) ==
    IF v.ok
    THEN [err |-> FALSE, obj |-> [Url |-> CoerceUTF8(v.Url), Expiry |-> v.Expiry]]
    ELSE [err |-> TRUE, obj |-> [Url |-> CoerceUTF8(v.Url), Expiry |-> 0]]

\* t.Before(u)
Before(t, u) == t < u

\* ------------------------------------------------------- the database

\* A bucket is a function from the keys it holds to their values.
EmptyBucket == <<>>

\* Bucket.Put and Bucket.Delete.
Put(bucket, k, v) ==
    [x \in DOMAIN bucket \cup {k} |-> IF x = k THEN v ELSE bucket[x]]
Delete(bucket, ks) == [x \in DOMAIN bucket \ ks |-> bucket[x]]

\* urlBucket.Get(url) and keyBucket.Get(key): nil for a key that is not
\* there, a nil key included.
UrlsGet(u) == IF u \in DOMAIN urls THEN urls[u] ELSE Nil
KeysGet(k) == IF k \in DOMAIN keys THEN keys[k] ELSE NilValue

\* ------------------------------------------------------------ responses

\* The calls a handler makes on its http.ResponseWriter.
HttpError(code) == [call |-> "Error", code |-> code]
HttpNotFound == [call |-> "NotFound", code |-> StatusNotFound]
HttpRedirect(url, code) == [call |-> "Redirect", url |-> url, code |-> code]
WriteHeader(code) == [call |-> "WriteHeader", code |-> code]
Fprint(body) == [call |-> "Fprint", body |-> body]

\* ------------------------------------------------------------------- Mint

\* keyId := urlBucket.Get([]byte(url))
MintKeyId(u) == UrlsGet(u)

\* Mutant of MintKey: the token bound to the URL is not reused.
MintKeyAlwaysFresh(u, cand) == cand

\* The token Mint writes and reports: the one already bound to the URL, or
\* else the candidate.
MintKey(u, cand) == IF MintKeyId(u) # Nil THEN MintKeyId(u) ELSE cand

\* The Key Mint stores: the record found under keyId, or a zero Key when
\* there is none or it does not decode, with Url and Expiry set.
MintKeyObj(u) ==
    LET keyBytes == KeysGet(MintKeyId(u))
        found == IF keyBytes # NilValue /\ ~Unmarshal(keyBytes).err
                 THEN Unmarshal(keyBytes).obj
                 ELSE ZeroKey
    IN  [found EXCEPT !.Url = u, !.Expiry = now + TTL]

\* What Mint writes to the caller after db.Update returned err.
MintResponse(err, key) ==
    (IF err THEN <<HttpError(StatusInternalServerError)>> ELSE <<>>)
        \o <<WriteHeader(StatusOK), Fprint(key)>>

\* Mutant of Mint: the form value is not checked, so an empty URL goes on to
\* the transaction, where the Put of an empty key fails it.
MintUnvalidated(u, n, fail) ==
    LET cand == FormatInt36(n)
        key == IF fail = "open" THEN cand ELSE MintKey(u, cand)
    IN  IF fail # "none" \/ u = EmptyUrl
        THEN /\ last' = [op |-> "mint", url |-> u, err |-> TRUE, found |-> FALSE,
                         calls |-> MintResponse(TRUE, key)]
             /\ UNCHANGED <<now, buckets, urls, keys>>
        ELSE /\ buckets' = buckets \cup {"urls", "keys"}
             /\ urls' = Put(urls, u, key)
             /\ keys' = Put(keys, key, Marshal(MintKeyObj(u)))
             /\ last' = [op |-> "mint", url |-> u, err |-> FALSE,
                         found |-> MintKeyId(u) # Nil,
                         calls |-> MintResponse(FALSE, key)]
             /\ UNCHANGED now

\* A Mint call with form value u, rand.Int63() = n and the database failing
\* as fail says: "none"; "open", before the lookup of the URL; "commit",
\* after the writes. last keeps, of a committed call, whether the URL was
\* found in "urls" (keyId != nil).
Mint(u, n, fail) ==
    LET cand == FormatInt36(n)
        key == IF fail = "open" THEN cand ELSE MintKey(u, cand)
    IN  IF u = EmptyUrl
        THEN /\ last' = [op |-> "mint", url |-> u, err |-> FALSE, found |-> FALSE,
                         calls |-> <<HttpError(StatusBadRequest)>>]
             /\ UNCHANGED <<now, buckets, urls, keys>>
        ELSE IF fail # "none"
        THEN /\ last' = [op |-> "mint", url |-> u, err |-> TRUE, found |-> FALSE,
                         calls |-> MintResponse(TRUE, key)]
             /\ UNCHANGED <<now, buckets, urls, keys>>
        ELSE /\ buckets' = buckets \cup {"urls", "keys"}
             /\ urls' = Put(urls, u, key)
             /\ keys' = Put(keys, key, Marshal(MintKeyObj(u)))
             /\ last' = [op |-> "mint", url |-> u, err |-> FALSE,
                         found |-> MintKeyId(u) # Nil,
                         calls |-> MintResponse(FALSE, key)]
             /\ UNCHANGED now

\* ------------------------------------------------------------------ Serve

\* Mutant of ServeCalls: a value that does not decode is answered like a
\* missing one.
ServeCallsCorruptAsAbsent(keyStr) ==
    IF "keys" \notin buckets THEN <<HttpNotFound>>
    ELSE LET key == KeysGet(keyStr)
             dec == Unmarshal(key)
         IN  IF key = NilValue \/ dec.err THEN <<HttpNotFound>>
             ELSE (IF Before(dec.obj.Expiry, now) THEN <<HttpNotFound>> ELSE <<>>)
                      \o <<HttpRedirect(dec.obj.Url, StatusMovedPermanently)>>

\* What Serve writes to the caller for the path "/" + keyStr inside db.View.
ServeCalls(keyStr) ==
    IF "keys" \notin buckets THEN <<HttpNotFound>>
    ELSE LET key == KeysGet(keyStr)
             dec == Unmarshal(key)
         IN  IF key = NilValue THEN <<HttpNotFound>>
             ELSE IF dec.err THEN <<HttpError(StatusInternalServerError)>>
             ELSE (IF Before(dec.obj.Expiry, now) THEN <<HttpNotFound>> ELSE <<>>)
                      \o <<HttpRedirect(dec.obj.Url, StatusMovedPermanently)>>

\* Mutant of ServeWrites: an expired record is deleted when it is read.
ServeWritesDeleteOnRead(keyStr) ==
    IF /\ keyStr \in DOMAIN keys
       /\ ~Unmarshal(keys[keyStr]).err
       /\ Before(Unmarshal(keys[keyStr]).obj.Expiry, now)
    THEN [urls |-> Delete(urls, {Unmarshal(keys[keyStr]).obj.Url}),
          keys |-> Delete(keys, {keyStr})]
    ELSE [urls |-> urls, keys |-> keys]

\* What Serve writes to the database: nothing, db.View is read-only.
ServeWrites(keyStr) == [urls |-> urls, keys |-> keys]

\* A Serve call. fail: db.View returns an error without running the function.
Serve(keyStr, fail) ==
    /\ last' = [op |-> "serve", keyStr |-> keyStr, err |-> fail,
                calls |-> IF fail THEN <<HttpError(StatusInternalServerError)>>
                          ELSE ServeCalls(keyStr)]
    /\ urls' = ServeWrites(keyStr).urls
    /\ keys' = ServeWrites(keyStr).keys
    /\ UNCHANGED <<now, buckets>>

\* ---------------------------------------------------------------- Expirer

\* Mutant of ExpirerKeyDeletes: a record is taken as expired at its expiry
\* time already (!Expiry.After(now) for Expiry.Before(now)).
ExpirerKeyDeletesAtExpiry ==
    {k \in DOMAIN keys :
        \/ Unmarshal(keys[k]).err
        \/ ~Before(now, Unmarshal(keys[k]).obj.Expiry)}

\* Mutant of ExpirerKeyDeletes: only the decode error is tested, the expiry
\* is not.
ExpirerKeyDeletesUndecodable ==
    {k \in DOMAIN keys : Unmarshal(keys[k]).err}

\* The keys and URLs one Expirer cycle collects for deletion.
ExpirerKeyDeletes ==
    {k \in DOMAIN keys :
        \/ Unmarshal(keys[k]).err
        \/ Before(Unmarshal(keys[k]).obj.Expiry, now)}
ExpirerUrlDeletes == {Unmarshal(keys[k]).obj.Url : k \in ExpirerKeyDeletes}

\* One cycle of the Expirer loop. fail: db.Update returns an error and the
\* transaction is rolled back.
Expirer(fail) ==
    /\ last' = [op |-> "expirer", err |-> fail,
                keyDeletes |-> IF "keys" \in buckets THEN ExpirerKeyDeletes ELSE {}]
    /\ IF fail \/ "keys" \notin buckets
       THEN UNCHANGED <<urls, keys>>
       ELSE /\ keys' = Delete(keys, ExpirerKeyDeletes)
            /\ urls' = IF "urls" \in buckets
                       THEN Delete(urls, ExpirerUrlDeletes)
                       ELSE urls
    /\ UNCHANGED <<now, buckets>>

\* ------------------------------------------------------------ environment

\* Time passes.
Tick ==
    /\ now < MaxTime
    /\ now' = now + 1
    /\ last' = [op |-> "tick"]
    /\ UNCHANGED <<buckets, urls, keys>>

\* Values that do not decode into a Key, with the Url decoded before the
\* error.
CorruptValues == {[ok |-> FALSE, Url |-> u, Expiry |-> 0] : u \in {EmptyUrl, <<"a">>}}

\* The stored value under a token is replaced by one that does not decode.
Inject(t, v) ==
    /\ "keys" \in buckets
    /\ keys' = Put(keys, t, v)
    /\ last' = [op |-> "inject", keyStr |-> t]
    /\ UNCHANGED <<now, buckets, urls>>

\* ---------------------------------------------------------------- history

\* The token a response reports: the body written by fmt.Fprint, Nil when
\* there is none.
Token(calls) ==
    IF \E i \in DOMAIN calls : calls[i].call = "Fprint"
    THEN calls[CHOOSE i \in DOMAIN calls : calls[i].call = "Fprint"].body
    ELSE Nil

\* A Mint call that was not rejected and whose transaction committed.
Minted(l) == l.op = "mint" /\ l.url # EmptyUrl /\ ~l.err

\* No Mint of the URL yet.
NotIssued == [tok |-> Nil, exp |-> 0, at |-> 0, swept |-> FALSE]

\* The history of issued tokens after a step: a successful Mint of u (seen
\* in last') records the token it reported, the expiry it stored and the
\* time; an Expirer cycle that deletes the "urls" entry of u marks it swept.
IssuedNext ==
    issued' = [u \in Urls |->
        IF Minted(last') /\ last'.url = u
        THEN [tok |-> Token(last'.calls), exp |-> keys'[Token(last'.calls)].Expiry,
              at |-> now, swept |-> FALSE]
        ELSE IF last'.op = "expirer" /\ u \in DOMAIN urls /\ u \notin DOMAIN urls'
        THEN [issued[u] EXCEPT !.swept = TRUE]
        ELSE issued[u]]

\* ----------------------------------------------------------- transactions

\* The steps of a read-write transaction, for the specification SpecTx: the
\* writes of the function passed to db.Update go to the transaction's own
\* view (tx.buckets, tx.urls, tx.keys) and reach the database when the
\* transaction commits. bolt opens one read-write transaction at a time;
\* read-only transactions (Serve) run beside it and read the database.

NoTx == [owner |-> "none"]

\* Mutant of TxEnds: each Put is committed by itself, as with one db.Update
\* call per bucket.
TxEndsAfterEachPut(at) == at \in {"143", "ret"}

\* db.Update commits when the function passed to it has returned nil; at is
\* the line the function is at.
TxEnds(at) == at = "ret"

\* Mint enters db.Update: the buckets are created, the URL is looked up, the
\* key is chosen and the record is built.
MintBegin(u, n) ==
    /\ tx = NoTx
    /\ u # EmptyUrl
    /\ tx' = [owner |-> "mint", at |-> "140", u |-> u,
              key |-> MintKey(u, FormatInt36(n)),
              val |-> Marshal(MintKeyObj(u)),
              found |-> MintKeyId(u) # Nil,
              buckets |-> buckets \cup {"urls", "keys"},
              urls |-> urls, keys |-> keys]
    /\ UNCHANGED <<now, buckets, urls, keys, last>>

\* urlBucket.Put(url, key)
MintPutUrl ==
    /\ tx.owner = "mint" /\ tx.at = "140"
    /\ tx' = [tx EXCEPT !.urls = Put(tx.urls, tx.u, tx.key), !.at = "143"]
    /\ UNCHANGED <<now, buckets, urls, keys, last>>

\* keyBucket.Put(key, keyBytes)
MintPutKey ==
    /\ tx.owner = "mint" /\ tx.at = "143"
    /\ tx' = [tx EXCEPT !.keys = Put(tx.keys, tx.key, tx.val), !.at = "ret"]
    /\ UNCHANGED <<now, buckets, urls, keys, last>>

\* An Expirer cycle enters db.Update and collects the keys and URLs to
\* delete; with no bucket "keys" the function returns at once.
ExpirerBegin ==
    /\ tx = NoTx
    /\ tx' = [owner |-> "expirer",
              at |-> IF "keys" \in buckets THEN "183" ELSE "ret",
              keyDeletes |-> IF "keys" \in buckets THEN ExpirerKeyDeletes ELSE {},
              urlDeletes |-> IF "keys" \in buckets THEN ExpirerUrlDeletes ELSE {},
              buckets |-> buckets, urls |-> urls, keys |-> keys]
    /\ UNCHANGED <<now, buckets, urls, keys, last>>

\* The loop of bucket.Delete(key) over keyDeletes.
ExpirerDeleteKeys ==
    /\ tx.owner = "expirer" /\ tx.at = "183"
    /\ tx' = [tx EXCEPT !.keys = Delete(tx.keys, tx.keyDeletes), !.at = "191"]
    /\ UNCHANGED <<now, buckets, urls, keys, last>>

\* The loop of urlBucket.Delete(url) over urlDeletes, if "urls" exists.
ExpirerDeleteUrls ==
    /\ tx.owner = "expirer" /\ tx.at = "191"
    /\ tx' = [tx EXCEPT !.urls = IF "urls" \in tx.buckets
                                  THEN Delete(tx.urls, tx.urlDeletes)
                                  ELSE tx.urls,
                        !.at = "ret"]
    /\ UNCHANGED <<now, buckets, urls, keys, last>>

\* What the owner of the transaction reports once db.Update has returned.
TxLast(err) ==
    IF tx.owner = "mint"
    THEN [op |-> "mint", url |-> tx.u, err |-> err, found |-> ~err /\ tx.found,
          calls |-> MintResponse(err, tx.key)]
    ELSE [op |-> "expirer", err |-> err, keyDeletes |-> tx.keyDeletes]

\* The transaction commits: its writes reach the database together.
TxCommit ==
    /\ tx # NoTx
    /\ TxEnds(tx.at)
    /\ buckets' = tx.buckets
    /\ urls' = tx.urls
    /\ keys' = tx.keys
    /\ IF tx.at = "ret"
       THEN tx' = NoTx /\ last' = TxLast(FALSE)
       ELSE UNCHANGED <<tx, last>>
    /\ UNCHANGED now

\* The transaction fails and is rolled back: none of its writes is kept.
TxRollback ==
    /\ tx # NoTx
    /\ tx' = NoTx
    /\ last' = TxLast(TRUE)
    /\ UNCHANGED <<now, buckets, urls, keys>>

\* ------------------------------------------------------ the companion tool

\* The goroutines of the tool that call Shorten: main (0), in its second
\* loop, and the goroutines main starts in its first loop (1..NumGoroutines),
\* which main does not wait for.
Goroutines == 0..NumGoroutines

\* The URLs the tool finds in its input.
Subjects == {"http://x", "http://y"}

\* fmt.Sprintf("https://p-b.us/%s", string(body))
ShortUrl(body) == "https://p-b.us/" \o body

ShortUrls == {ShortUrl(b) : b \in Tokens}

NoLocal == [subject |-> "", ok |-> FALSE, body |-> "", ret |-> ""]

\* Where a goroutine is once Shorten has returned: main calls it again for
\* the next URL, a started goroutine is done.
Returned(g) == IF g = 0 THEN "idle" ELSE "done"

\* Goroutine g holds cacheMu, for reading or for writing.
Holds(g) == g \in cacheMu.r \/ cacheMu.w = {g}

\* Another goroutine is in the middle of the map write of line 313.
Writing(g) == \E h \in Goroutines \ {g} : pc[h] = "313w"

\* Shorten(key, subject) is called in goroutine g.
Call(g, subject) ==
    /\ ~fatal /\ pc[g] = "idle"
    /\ pc' = [pc EXCEPT ![g] = "267"]
    /\ local' = [local EXCEPT ![g] = [NoLocal EXCEPT !.subject = subject]]
    /\ UNCHANGED <<cache, cacheMu, fatal>>

\* cacheMu.RLock()
RLock(g) ==
    /\ ~fatal /\ pc[g] = "267"
    /\ cacheMu.w = {}
    /\ cacheMu' = [cacheMu EXCEPT !.r = @ \cup {g}]
    /\ pc' = [pc EXCEPT ![g] = "268"]
    /\ UNCHANGED <<cache, local, fatal>>

\* ret, ok := cache[subject]
Lookup(g) ==
    /\ ~fatal /\ pc[g] = "268"
    /\ local' = [local EXCEPT ![g].ok = local[g].subject \in DOMAIN cache,
                              ![g].ret = IF local[g].subject \in DOMAIN cache
                                         THEN cache[local[g].subject] ELSE ""]
    /\ pc' = [pc EXCEPT ![g] = "269"]
    /\ UNCHANGED <<cache, cacheMu, fatal>>

\* cacheMu.RUnlock(); if ok { return ret }
RUnlock(g) ==
    /\ ~fatal /\ pc[g] = "269"
    /\ cacheMu' = [cacheMu EXCEPT !.r = @ \ {g}]
    /\ pc' = [pc EXCEPT ![g] = IF local[g].ok THEN Returned(g) ELSE "292"]
    /\ UNCHANGED <<cache, local, fatal>>

\* The mint request fails, or its answer is not 2XX: return subject.
DoFails(g) ==
    /\ ~fatal /\ pc[g] = "292"
    /\ local' = [local EXCEPT ![g].ret = local[g].subject]
    /\ pc' = [pc EXCEPT ![g] = Returned(g)]
    /\ UNCHANGED <<cache, cacheMu, fatal>>

\* The mint request is answered with a token in its body.
Do(g, body) ==
    /\ ~fatal /\ pc[g] = "292"
    /\ local' = [local EXCEPT ![g].body = body]
    /\ pc' = [pc EXCEPT ![g] = "312"]
    /\ UNCHANGED <<cache, cacheMu, fatal>>

\* cacheMu.Lock()
Lock(g) ==
    /\ ~fatal /\ pc[g] = "312"
    /\ cacheMu.w = {} /\ cacheMu.r = {}
    /\ cacheMu' = [cacheMu EXCEPT !.w = {g}]
    /\ pc' = [pc EXCEPT ![g] = "313"]
    /\ UNCHANGED <<cache, local, fatal>>

\* cache[subject] = ...: the map write begins
StoreBegin(g) ==
    /\ ~fatal /\ pc[g] = "313"
    /\ pc' = [pc EXCEPT ![g] = "313w"]
    /\ UNCHANGED <<cache, cacheMu, local, fatal>>

\* cache[subject] = ...: the map write is done
StoreEnd(g) ==
    /\ ~fatal /\ pc[g] = "313w"
    /\ cache' = Put(cache, local[g].subject, ShortUrl(local[g].body))
    /\ pc' = [pc EXCEPT ![g] = "314"]
    /\ UNCHANGED <<cacheMu, local, fatal>>

\* cacheMu.Unlock()
Unlock(g) ==
    /\ ~fatal /\ pc[g] = "314"
    /\ cacheMu' = [cacheMu EXCEPT !.w = {}]
    /\ pc' = [pc EXCEPT ![g] = "316"]
    /\ UNCHANGED <<cache, local, fatal>>

\* return cache[subject]. A map read while another goroutine writes the map
\* is a data race: the runtime stops the program ("concurrent map read and
\* map write") or the read yields any outcome of a lookup.
Return(g) ==
    /\ ~fatal /\ pc[g] = "316"
    /\ IF Writing(g)
       THEN \/ fatal' = TRUE /\ UNCHANGED <<pc, local>>
            \/ /\ \E v \in ShortUrls \cup {""} : local' = [local EXCEPT ![g].ret = v]
               /\ pc' = [pc EXCEPT ![g] = Returned(g)]
               /\ UNCHANGED fatal
       ELSE /\ local' = [local EXCEPT ![g].ret = cache[local[g].subject]]
            /\ pc' = [pc EXCEPT ![g] = Returned(g)]
            /\ UNCHANGED fatal
    /\ UNCHANGED <<cache, cacheMu>>

\* ---------------------------------------------------------- specification

\* A new database file: bolt.Open creates it with no bucket.
Init ==
    /\ now = 0
    /\ buckets = {}
    /\ urls = EmptyBucket
    /\ keys = EmptyBucket
    /\ last = [op |-> "init"]
    /\ issued = [u \in Urls |-> NotIssued]
    /\ tx = NoTx
    /\ cache = EmptyBucket
    /\ cacheMu = [r |-> {}, w |-> {}]
    /\ pc = [g \in Goroutines |-> "idle"]
    /\ local = [g \in Goroutines |-> NoLocal]
    /\ fatal = FALSE

MintFails == {"none", "open", "commit"}

MintStep == \E u \in FormValues, n \in 0..MaxRand, fail \in MintFails : Mint(u, n, fail)
ServeStep == \E keyStr \in Tokens, fail \in BOOLEAN : Serve(keyStr, fail)
ExpirerStep == \E fail \in BOOLEAN : Expirer(fail)
InjectStep == \E t \in Tokens, v \in CorruptValues : Inject(t, v)

\* The program: handler calls and Expirer cycles in any order, as time passes.
Next ==
    \/ MintStep /\ UNCHANGED <<issued, tx, toolVars>>
    \/ ServeStep /\ UNCHANGED <<issued, tx, toolVars>>
    \/ ExpirerStep /\ UNCHANGED <<issued, tx, toolVars>>
    \/ Tick /\ UNCHANGED <<issued, tx, toolVars>>

Spec == Init /\ [][Next]_vars

\* The program on a database that does not fail, with stored values damaged
\* from outside.
NextInject ==
    \/ (\E u \in FormValues, n \in 0..MaxRand : Mint(u, n, "none")) /\ UNCHANGED <<issued, tx, toolVars>>
    \/ (\E keyStr \in Tokens : Serve(keyStr, FALSE)) /\ UNCHANGED <<issued, tx, toolVars>>
    \/ Expirer(FALSE) /\ UNCHANGED <<issued, tx, toolVars>>
    \/ Tick /\ UNCHANGED <<issued, tx, toolVars>>
    \/ InjectStep /\ UNCHANGED <<issued, tx, toolVars>>

SpecInject == Init /\ [][NextInject]_vars

\* The writers of the database (Mint calls and Expirer cycles), with the
\* history of issued tokens kept.
NextIssued ==
    \/ MintStep /\ IssuedNext /\ UNCHANGED <<tx, toolVars>>
    \/ ExpirerStep /\ IssuedNext /\ UNCHANGED <<tx, toolVars>>
    \/ Tick /\ IssuedNext /\ UNCHANGED <<tx, toolVars>>

SpecIssued == Init /\ [][NextIssued]_vars

\* The steps that change the database (Mint calls that commit, Expirer
\* cycles, which may fail) and the clock, with the Expirer loop scheduled
\* fairly and its transaction succeeding eventually: the loop has no exit
\* and sleeps a minute between cycles, so a cycle that commits cannot stay
\* possible forever without being run. Serve calls and Mint calls that fail
\* leave the database as it is and are left out.
ExpirerCommits == Expirer(FALSE) /\ UNCHANGED <<issued, tx, toolVars>>

NextFair ==
    \/ (\E u \in FormValues, n \in 0..MaxRand : Mint(u, n, "none")) /\ UNCHANGED <<issued, tx, toolVars>>
    \/ ExpirerStep /\ UNCHANGED <<issued, tx, toolVars>>
    \/ Tick /\ UNCHANGED <<issued, tx, toolVars>>

SpecFair == Init /\ [][NextFair]_vars /\ WF_vars(ExpirerCommits)

\* The database with its transactions taken step by step: Mint calls and
\* Expirer cycles write inside one read-write transaction each, Serve calls
\* read the database while a transaction is open. The clock's unit is the
\* lifetime of a record, so no transaction is open across a tick.
dbVars == <<now, buckets, urls, keys, last>>

NextTx ==
    \/ (\E u \in Urls, n \in 0..MaxRand : MintBegin(u, n)) /\ UNCHANGED <<issued, toolVars>>
    \/ MintPutUrl /\ UNCHANGED <<issued, toolVars>>
    \/ MintPutKey /\ UNCHANGED <<issued, toolVars>>
    \/ ExpirerBegin /\ UNCHANGED <<issued, toolVars>>
    \/ ExpirerDeleteKeys /\ UNCHANGED <<issued, toolVars>>
    \/ ExpirerDeleteUrls /\ UNCHANGED <<issued, toolVars>>
    \/ TxCommit /\ UNCHANGED <<issued, toolVars>>
    \/ TxRollback /\ UNCHANGED <<issued, toolVars>>
    \/ (\E keyStr \in Tokens : Serve(keyStr, FALSE)) /\ UNCHANGED <<issued, tx, toolVars>>
    \/ (tx = NoTx /\ Tick) /\ UNCHANGED <<issued, tx, toolVars>>

SpecTx == Init /\ [][NextTx]_vars

\* The companion tool: its goroutines call Shorten concurrently.
NextShorten ==
    \/ (\E g \in Goroutines, subject \in Subjects : Call(g, subject)) /\ UNCHANGED <<dbVars, issued, tx>>
    \/ (\E g \in Goroutines : RLock(g)) /\ UNCHANGED <<dbVars, issued, tx>>
    \/ (\E g \in Goroutines : Lookup(g)) /\ UNCHANGED <<dbVars, issued, tx>>
    \/ (\E g \in Goroutines : RUnlock(g)) /\ UNCHANGED <<dbVars, issued, tx>>
    \/ (\E g \in Goroutines : DoFails(g)) /\ UNCHANGED <<dbVars, issued, tx>>
    \/ (\E g \in Goroutines, body \in Tokens : Do(g, body)) /\ UNCHANGED <<dbVars, issued, tx>>
    \/ (\E g \in Goroutines : Lock(g)) /\ UNCHANGED <<dbVars, issued, tx>>
    \/ (\E g \in Goroutines : StoreBegin(g)) /\ UNCHANGED <<dbVars, issued, tx>>
    \/ (\E g \in Goroutines : StoreEnd(g)) /\ UNCHANGED <<dbVars, issued, tx>>
    \/ (\E g \in Goroutines : Unlock(g)) /\ UNCHANGED <<dbVars, issued, tx>>
    \/ (\E g \in Goroutines : Return(g)) /\ UNCHANGED <<dbVars, issued, tx>>

SpecShorten == Init /\ [][NextShorten]_vars

\* ----------------------------------------------------------------- claims

\* The stored value under token t decodes and its expiry is not before now.
Live(t) ==
    /\ t \in DOMAIN keys
    /\ ~Unmarshal(keys[t]).err
    /\ ~Before(Unmarshal(keys[t]).obj.Expiry, now)

\* The stored value under token t decodes and its expiry is before now.
Expired(t) ==
    /\ t \in DOMAIN keys
    /\ ~Unmarshal(keys[t]).err
    /\ Before(Unmarshal(keys[t]).obj.Expiry, now)

\* The stored value under token t does not decode.
Corrupt(t) == t \in DOMAIN keys /\ Unmarshal(keys[t]).err

\* The target of the record stored under token t.
Target(t) == Unmarshal(keys[t]).obj.Url

\* C1: in every reachable state, for every URL u and token t, if
\* urls[u] = t and keys[t] holds a decodable record whose expiry is not
\* before now, then that record's target is u.
C1_CrossNamespaceConsistency ==
    \A u \in DOMAIN urls : Live(urls[u]) => Target(urls[u]) = u

\* C2: while keys[t] holds an unexpired record with target u, no Mint(u')
\* with u' # u writes keys[t] or sets urls[u'] = t.
C2_TokenNotReused ==
    [][\A t \in Tokens :
          (Live(t) /\ Minted(last') /\ last'.url # Target(t))
              => /\ t \in DOMAIN keys' /\ keys'[t] = keys[t]
                 /\ urls'[last'.url] # t]_vars

\* C3: a successful Mint(u) that follows a successful Mint(u), with no
\* Expirer cycle deleting the "urls" entry of u in between, reports the
\* same token, and the expiry it stores is not before the expiry the
\* earlier Mint stored.
C3_IdempotentMint ==
    [][\A u \in Urls :
          (Minted(last') /\ last'.url = u /\ issued[u].tok # Nil /\ ~issued[u].swept)
              => /\ Token(last'.calls) = issued[u].tok
                 /\ last'.calls = <<WriteHeader(StatusOK), Fprint(issued[u].tok)>>
                 /\ Unmarshal(keys'[issued[u].tok]).obj.Expiry >= issued[u].exp]_vars

\* C3 witness: a Mint of a URL minted before, its "urls" entry not deleted
\* since, has just succeeded at a later time, after another URL was minted
\* with the same token.
C3_Witness ==
    \E u \in Urls :
        /\ Minted(last) /\ last.url = u
        /\ last.found /\ issued[u].tok = Token(last.calls)
        /\ issued[u].at > 0 /\ issued[u].at = now
        /\ \E v \in Urls \ {u} : issued[v].tok = issued[u].tok /\ issued[v].at < now

\* C4: a Serve of the token a successful Mint(u) has just reported
\* redirects to u, and writes nothing else.
C4_RoundTrip ==
    [][(Minted(last) /\ last'.op = "serve" /\ ~last'.err
            /\ last'.keyStr = Token(last.calls))
          => last'.calls = <<HttpRedirect(last.url, StatusMovedPermanently)>>]_vars

\* C5: a Serve of a token whose record decodes and has its expiry before now
\* writes the not-found response and nothing else.
C5_ExpiredNotFound ==
    (last.op = "serve" /\ ~last.err /\ Expired(last.keyStr))
        => last.calls = <<HttpNotFound>>

\* C6: a Mint whose transaction fails writes the failure response only (no
\* success status, no token) and leaves the database as it was.
C6_MintFailure ==
    [][(last'.op = "mint" /\ last'.err)
          => /\ last'.calls = <<HttpError(StatusInternalServerError)>>
             /\ buckets' = buckets /\ urls' = urls /\ keys' = keys]_vars

\* C7: after a completed Expirer cycle, every token whose record had its
\* expiry before the cycle's time is absent from "keys" and its target is
\* absent from "urls", and every record that decodes and is not expired is
\* still there, unchanged, and Serve still redirects to its target.
C7_SweeperConvergence ==
    [][(last'.op = "expirer" /\ ~last'.err)
          => \A t \in Tokens :
                /\ Expired(t) => /\ t \notin DOMAIN keys'
                                 /\ Target(t) \notin DOMAIN urls'
                /\ Live(t) => /\ t \in DOMAIN keys' /\ keys'[t] = keys[t]
                              /\ ServeCalls(t)' =
                                    <<HttpRedirect(Target(t), StatusMovedPermanently)>>]_vars

\* C7 witness: a completed Expirer cycle has deleted an expired record and
\* has left another, unexpired, in place.
C7_Witness ==
    /\ last.op = "expirer" /\ ~last.err
    /\ \E t \in last.keyDeletes : t \notin DOMAIN keys
    /\ \E t \in Tokens : Live(t)

\* C8: a Serve of a token whose stored value does not decode writes the
\* internal-server-error response, not the not-found one; and a Serve of a
\* token whose record decodes and is not expired redirects to its target,
\* whatever is stored under the other tokens.
C8_CorruptionIsolation ==
    (last.op = "serve" /\ ~last.err)
        => /\ Corrupt(last.keyStr)
                => last.calls = <<HttpError(StatusInternalServerError)>>
           /\ Live(last.keyStr)
                => last.calls =
                      <<HttpRedirect(Target(last.keyStr), StatusMovedPermanently)>>

\* C8 witness: Serve has just answered for a token whose value does not
\* decode while another token holds an unexpired record.
C8_Witness ==
    /\ last.op = "serve" /\ ~last.err
    /\ Corrupt(last.keyStr)
    /\ \E t \in Tokens \ {last.keyStr} : Live(t)

\* C9: a Serve call leaves the buckets "urls" and "keys" as they were, on
\* every path.
C9_ServeReadOnly ==
    [][last'.op = "serve" => buckets' = buckets /\ urls' = urls /\ keys' = keys]_vars

\* C9 witness: Serve has just answered for an expired record, and the record
\* and a "urls" entry for its token are still there.
C9_Witness ==
    /\ last.op = "serve" /\ ~last.err
    /\ Expired(last.keyStr)
    /\ \E u \in DOMAIN urls : urls[u] = last.keyStr

\* C10: when two Mint calls for different URLs have both committed at the
\* same time, with Expirer cycles in any order among them, both URLs are
\* keys of "urls" and both reported tokens are keys of "keys".
C10_NoLostUpdate ==
    \A u1, u2 \in Urls :
        (/\ u1 # u2
         /\ issued[u1].tok # Nil /\ issued[u1].at = now
         /\ issued[u2].tok # Nil /\ issued[u2].at = now)
            => /\ u1 \in DOMAIN urls /\ u2 \in DOMAIN urls
               /\ issued[u1].tok \in DOMAIN keys /\ issued[u2].tok \in DOMAIN keys

\* C11: in one completed Expirer cycle, for every token whose stored value
\* does not decode, the token's entry in "keys" is deleted and so is every
\* "urls" entry that holds that token.
C11_CorruptCleanup ==
    [][(last'.op = "expirer" /\ ~last'.err)
          => \A t \in Tokens :
                Corrupt(t) => /\ t \notin DOMAIN keys'
                              /\ \A u \in DOMAIN urls : urls[u] = t => u \notin DOMAIN urls']_vars

\* C14: a Mint(u) that finds urls[u] = t with an undecodable value under t
\* succeeds, reports t, and leaves under t a decodable record with target u
\* and expiry now + 30 days.
C14_LenientMint ==
    [][\A u \in Urls :
          (/\ u \in DOMAIN urls /\ Corrupt(urls[u])
           /\ last'.op = "mint" /\ last'.url = u)
              => /\ last'.calls = <<WriteHeader(StatusOK), Fprint(urls[u])>>
                 /\ urls[u] \in DOMAIN keys'
                 /\ ~Unmarshal(keys'[urls[u]]).err
                 /\ Unmarshal(keys'[urls[u]]).obj = [Url |-> u, Expiry |-> now + TTL]]_vars

\* C15: a Mint with an empty URL writes the bad-request response and nothing
\* else (no token), whatever the state of the database, and leaves the
\* buckets as they were.
C15_EmptyUrlRejected ==
    [][(last'.op = "mint" /\ last'.url = EmptyUrl)
          => /\ last'.calls = <<HttpError(StatusBadRequest)>>
             /\ Token(last'.calls) = Nil
             /\ buckets' = buckets /\ urls' = urls /\ keys' = keys]_vars

\* C15 witness: a Mint with an empty URL has just been answered on a
\* database that holds a binding.
C15_Witness ==
    /\ last.op = "mint" /\ last.url = EmptyUrl
    /\ DOMAIN urls # {} /\ DOMAIN keys # {}

\* C16: with no damage from outside, every decodable record keys[t] with
\* target u has urls[u] = t, so no two tokens hold records with the same
\* target.
C16_ReverseIndex ==
    \A t \in DOMAIN keys :
        ~Unmarshal(keys[t]).err
            => Target(t) \in DOMAIN urls /\ urls[Target(t)] = t

\* C17: after Mint calls and completed Expirer cycles, every "urls" entry
\* holds a token that is a key of "keys".
C17_NoDanglingUrl ==
    \A u \in DOMAIN urls : urls[u] \in DOMAIN keys

\* C18: an Expirer cycle does not delete a "urls" entry whose token holds a
\* decodable, unexpired record.
C18_SweepFrame ==
    [][last'.op = "expirer"
          => \A u \in DOMAIN urls : Live(urls[u]) => u \in DOMAIN urls' /\ urls'[u] = urls[u]]_vars

\* The value stored under token t decodes to a record with expiry e, and e
\* is before now.
ExpiredRecord(t, e) ==
    /\ t \in DOMAIN keys
    /\ ~Unmarshal(keys[t]).err
    /\ Unmarshal(keys[t]).obj.Expiry = e
    /\ Before(e, now)

\* C13: after a cycle whose transaction failed another cycle can always
\* run, and, with the Expirer scheduled fairly and its transaction
\* succeeding eventually, every record whose expiry has passed is eventually
\* no longer stored in "keys".
C13_SweeperLiveness ==
    /\ [](last.op = "expirer" /\ last.err => ENABLED <<ExpirerCommits>>_vars)
    /\ \A t \in Tokens : \A e \in 0..(MaxTime + TTL) :
          ExpiredRecord(t, e) ~> ~ExpiredRecord(t, e)

\* C13 witness: a cycle whose transaction failed has left an expired record
\* in "keys".
C13_Witness ==
    /\ last.op = "expirer" /\ last.err
    /\ \E t \in Tokens : t \in last.keyDeletes /\ Expired(t)

\* C12: every change of the database is the whole effect of one Mint call
\* (its write to "urls" and its write to "keys") or of one Expirer cycle
\* (all of its deletions), so whoever reads the database, while a
\* transaction is open or after it, never finds one bucket updated without
\* the other.
C12_AtomicVisibility ==
    [][<<buckets, urls, keys>>' # <<buckets, urls, keys>>
          => \/ \E u \in Urls, n \in 0..MaxRand :
                   /\ buckets' = buckets \cup {"urls", "keys"}
                   /\ urls' = Put(urls, u, MintKey(u, FormatInt36(n)))
                   /\ keys' = Put(keys, MintKey(u, FormatInt36(n)), Marshal(MintKeyObj(u)))
             \/ /\ "keys" \in buckets
                /\ buckets' = buckets
                /\ keys' = Delete(keys, ExpirerKeyDeletes)
                /\ urls' = IF "urls" \in buckets
                           THEN Delete(urls, ExpirerUrlDeletes)
                           ELSE urls]_vars

\* C12 witness: a Serve call has been answered from the database while a
\* Mint's transaction holds its write to "urls" and has not yet written
\* "keys".
C12_Witness ==
    /\ last.op = "serve"
    /\ tx.owner = "mint" /\ tx.at = "143"
    /\ tx.urls # urls

\* C19: every read and write of the map cache in Shorten is made by a
\* goroutine that holds cacheMu, and no goroutine is at a read of the map
\* while another is in the middle of a write of it.
C19_CacheLockDiscipline ==
    /\ \A g \in Goroutines : pc[g] \in {"268", "313", "313w", "316"} => Holds(g)
    /\ \A g \in Goroutines : pc[g] \in {"268", "316"} => ~Writing(g)

====
